---- MODULE Spec2Model ----
(***************************************************************************)
(* The Adder demo of secure-grpc: one server process (server.py) and       *)
(* client processes (client.py), each performing one Add call over an      *)
(* insecure, server-authenticated or mutually authenticated channel.       *)
(***************************************************************************)
EXTENDS Integers, Sequences, FiniteSets, TLC

\* ---------------------------------------------------------------- bounds
\* How many values below the upper end of the random range are sampled.
Spread == 0

\* ------------------------------------------------------------- constants
RandLo == 1
RandHi == 10001

\* The client processes that are invoked against the one server.
Clients == {"client1", "client2"}

\* Operands sampled from what random.randint(RandLo, RandHi) can return
\* (randint includes both end points): the low end and the top of the range.
Operands == {RandLo} \cup ((RandHi - Spread) .. RandHi)

\* ------------------------------------------------------------ filesystem
Files == {"server.key", "server.crt", "root.crt", "intermediate.crt",
          "client.key", "client.crt"}

Key(owner) == [type |-> "KEY", subject |-> owner, issuer |-> owner]
Cert(subject, issuer) == [type |-> "CERT", subject |-> subject, issuer |-> issuer]

Signers == {"self", "root", "intermediate"}

\* The issuer of a leaf certificate under each signing scheme.
IssuerOf(owner, scheme) ==
    CASE scheme = "self" -> owner
      [] scheme = "root" -> "root"
      [] OTHER -> "intermediate"

\* The working directory when every file was generated for one scheme; a file
\* is a sequence of PEM blocks.
PKI(scheme) ==
    [f \in Files |->
        CASE f = "server.key" -> <<Key("server")>>
          [] f = "server.crt" ->
                IF scheme = "intermediate"
                THEN <<Cert("server", "intermediate"), Cert("intermediate", "root")>>
                ELSE <<Cert("server", IssuerOf("server", scheme))>>
          [] f = "root.crt" -> <<Cert("root", "root")>>
          [] f = "intermediate.crt" -> <<Cert("intermediate", "root")>>
          [] f = "client.key" -> <<Key("client")>>
          [] OTHER -> <<Cert("client", IssuerOf("client", scheme))>>]

Restrict(f, S) == [x \in S |-> f[x]]

\* Which files may be absent: none, any single one, or all of them.
MissingSets == {{}} \cup {{f} : f \in Files} \cup {Files}

\* The working directories considered: complete for each signing scheme, and
\* the root-signed one with files absent.
FileSystems ==
    {PKI(s) : s \in Signers} \cup {Restrict(PKI("root"), Files \ m) : m \in MissingSets}

\* ----------------------------------------------------- command line (common)
Authentications == {"none", "server", "mutual"}

NoArgs == [authentication |-> "-", signer |-> "-"]

\* Without authentication the signer is never read: one value stands for all.
ClientArgs ==
    {a \in [authentication : Authentications, signer : Signers] :
        a.authentication = "none" => a.signer = "self"}

ServerArgs ==
    {[authentication |-> au, server_authenticated |-> (au # "none")] :
        au \in Authentications}

\* What listens at server_address: this repository's server, or some other
\* plaintext implementation of the Adder service.
Listeners == {"adder", "other"}

\* The runs considered: this repository's server on any working directory
\* and command line, or the other service beside an unsecured server.
Scenarios ==
    {[fs |-> f, listener |-> "adder", server_args |-> sa] :
        f \in FileSystems, sa \in ServerArgs}
    \cup
    {[fs |-> PKI("root"), listener |-> "other", server_args |-> sa] :
        sa \in {x \in ServerArgs : x.authentication = "none"}}

VARIABLES
    fs,            \* the working directory: file name -> PEM blocks
    listener,      \* what listens at server_address
    server_args,   \* the server's parsed command line
    server_pc,     \* "init", "serving", "crashed"
    port,          \* "none", "insecure", "secure"
    server_credentials, \* what ssl_server_credentials was given
    server_out,    \* the server's standard output: the Add lines
    opened,        \* <<process, file>> for every open() performed
    pc,            \* per client: "init", "awaiting", "closing", "done", "crashed"
    args,          \* per client: the parsed command line
    channel,       \* per client: the channel built
    operands,      \* per client: <<a, b>>
    rpc,           \* per client: the state of the one call
    attempts,      \* per client: how many requests were sent
    out,           \* per client: the standard output lines "Client: ..."
    error          \* per client: the exception that ended the process

server_vars == <<server_args, server_pc, port, server_credentials>>
client_vars == <<pc, args, channel, operands, rpc, attempts, out, error>>
vars == <<fs, listener, server_args, server_pc, port, server_credentials,
          server_out, opened, pc, args, channel, operands, rpc, attempts, out, error>>

NoCredentials ==
    [private_key |-> <<>>, certificate_chain |-> <<>>, require_client_auth |-> FALSE]

NoChannel ==
    [kind |-> "-", root_certificates |-> <<>>, private_key |-> <<>>,
     certificate_chain |-> <<>>]

NoRpc == [status |-> "-", sum |-> 0]

Line(a, b, s) == [a |-> a, b |-> b, sum |-> s]

\* The state when no process has run yet, in one of the given scenarios.
InitIn(scenarios) ==
    /\ \E sc \in scenarios :
          /\ fs = sc.fs
          /\ listener = sc.listener
          /\ server_args = sc.server_args
    /\ server_pc = "init"
    /\ port = "none"
    /\ server_credentials = NoCredentials
    /\ server_out = <<>>
    /\ opened = {}
    /\ pc = [c \in Clients |-> "init"]
    /\ args = [c \in Clients |-> NoArgs]
    /\ channel = [c \in Clients |-> NoChannel]
    /\ operands = [c \in Clients |-> <<0, 0>>]
    /\ rpc = [c \in Clients |-> NoRpc]
    /\ attempts = [c \in Clients |-> 0]
    /\ out = [c \in Clients |-> <<>>]
    /\ error = [c \in Clients |-> "-"]

Init == InitIn(Scenarios)

\* ---------------------------------------------------------------- server

\* server.py 22-23: the files the secured server opens.
ServerFiles == {"server.key", "server.crt"}

\* A server that falls back to an insecure port when a credential file is absent.
ServerFallsBack ==
    /\ port' = "insecure"
    /\ server_pc' = "serving"
    /\ UNCHANGED server_credentials

\* server.py 22-23: open() raises FileNotFoundError, which nothing catches: the
\* process ends before any port is added.
ServerOpenFailed ==
    /\ server_pc' = "crashed"
    /\ UNCHANGED <<port, server_credentials>>

\* server.py 16-32: main up to wait_for_termination (start() depends on nothing
\* else, so the suspend point at line 30 is passed within the step).
ServerMain ==
    /\ server_pc = "init"
    /\ IF server_args.server_authenticated
       THEN IF "server.key" \notin DOMAIN fs
            THEN /\ opened' = opened \cup {<<"server", "server.key">>}
                 /\ ServerOpenFailed
            ELSE IF "server.crt" \notin DOMAIN fs
            THEN /\ opened' = opened \cup {<<"server", f>> : f \in ServerFiles}
                 /\ ServerOpenFailed
            ELSE /\ opened' = opened \cup {<<"server", f>> : f \in ServerFiles}
                 /\ server_credentials' =
                        [private_key |-> fs["server.key"],
                         certificate_chain |-> fs["server.crt"],
                         require_client_auth |-> FALSE]
                 /\ port' = "secure"
                 /\ server_pc' = "serving"
       ELSE /\ port' = "insecure"
            /\ server_pc' = "serving"
            /\ UNCHANGED <<opened, server_credentials>>
    /\ UNCHANGED <<fs, listener, server_args, server_out>>
    /\ UNCHANGED client_vars

\* A handler that subtracts.
AdderSub(a, b) == a - b

\* A handler that keeps a running total across calls.
AdderAccumulate(a, b) == a + b + Len(server_out)

\* server.py 11-14, Adder.Add: the sum placed in the reply.
AdderAdd(a, b) == a + b

\* ---------------------------------------------------------------- client

\* A client that pins server.crt for the root signer too.
AnchorFilePinned(signer) ==
    CASE signer = "intermediate" -> "intermediate.crt"
      [] OTHER -> "server.crt"

\* client.py 13-18: the file read as root certificate for each signer.
AnchorFile(signer) ==
    CASE signer = "self" -> "server.crt"
      [] signer = "root" -> "root.crt"
      [] OTHER -> "intermediate.crt"

\* A client that makes credentials in every mode.
AlwaysCredentials(a) == TRUE

\* client.py 32: whether credentials are made at all.
NeedsCredentials(a) == a.authentication # "none"

\* client.py 13-21: the files make_credentials opens, in order.
CredentialFiles(a) ==
    <<AnchorFile(a.signer)>> \o
    (IF a.authentication = "mutual" THEN <<"client.key", "client.crt">> ELSE <<>>)

\* open() raises FileNotFoundError at the first absent file: the files opened
\* are those up to and including it.
FirstMissing(files) ==
    IF \E i \in 1..Len(files) : files[i] \notin DOMAIN fs
    THEN CHOOSE i \in 1..Len(files) :
            /\ files[i] \notin DOMAIN fs
            /\ \A j \in 1..(i - 1) : files[j] \in DOMAIN fs
    ELSE 0

OpenedFiles(files) ==
    IF FirstMissing(files) = 0
    THEN {files[i] : i \in 1..Len(files)}
    ELSE {files[i] : i \in 1..FirstMissing(files)}

\* client.py 10-26, make_credentials, when every file it opens exists.
make_credentials(a) ==
    [kind |-> "secure",
     root_certificates |-> fs[AnchorFile(a.signer)],
     private_key |-> IF a.authentication = "mutual" THEN fs["client.key"] ELSE <<>>,
     certificate_chain |-> IF a.authentication = "mutual" THEN fs["client.crt"] ELSE <<>>]

\* client.py 33: grpc.aio.insecure_channel.
insecure_channel == [NoChannel EXCEPT !.kind = "insecure"]

\* The process has exited: its locals are gone; its command line, what it
\* printed and the requests it sent remain.
Exited(c, how, why) ==
    /\ pc' = [pc EXCEPT ![c] = how]
    /\ error' = [error EXCEPT ![c] = why]
    /\ channel' = [channel EXCEPT ![c] = NoChannel]
    /\ operands' = [operands EXCEPT ![c] = <<0, 0>>]
    /\ rpc' = [rpc EXCEPT ![c] = NoRpc]

\* client.py 28-42 up to the first suspend point (await stub.Add(request)).
ClientMain(c) ==
    /\ pc[c] = "init"
    /\ \E ar \in ClientArgs, a \in Operands, b \in Operands :
        IF NeedsCredentials(ar) /\ FirstMissing(CredentialFiles(ar)) # 0
        THEN /\ args' = [args EXCEPT ![c] = ar]
             /\ opened' = opened \cup {<<c, f>> : f \in OpenedFiles(CredentialFiles(ar))}
             /\ Exited(c, "crashed", "FileNotFoundError")
             /\ UNCHANGED <<attempts, out>>
        ELSE /\ args' = [args EXCEPT ![c] = ar]
             /\ IF NeedsCredentials(ar)
                THEN /\ opened' = opened \cup
                            {<<c, f>> : f \in OpenedFiles(CredentialFiles(ar))}
                     /\ channel' = [channel EXCEPT ![c] = make_credentials(ar)]
                ELSE /\ opened' = opened
                     /\ channel' = [channel EXCEPT ![c] = insecure_channel]
             /\ operands' = [operands EXCEPT ![c] = <<a, b>>]
             /\ rpc' = [rpc EXCEPT ![c] = [status |-> "requested", sum |-> 0]]
             /\ attempts' = [attempts EXCEPT ![c] = @ + 1]
             /\ pc' = [pc EXCEPT ![c] = "awaiting"]
             /\ UNCHANGED <<out, error>>
    /\ UNCHANGED <<fs, listener, server_out>>
    /\ UNCHANGED server_vars

\* ------------------------------------------------------------- transport

Range(s) == {s[i] : i \in 1..Len(s)}

\* The first i certificates of the chain are each issued by the next.
Linked(chain, i) == \A j \in 1..(i - 1) : chain[j].issuer = chain[j + 1].subject

\* Certificate verification by the TLS stack: some certificate of the presented
\* chain is a trusted one or is issued by a trusted one.
Verify(roots, chain) ==
    \E i \in 1..Len(chain) :
        /\ Linked(chain, i)
        /\ \E r \in Range(roots) :
              /\ r.type = "CERT"
              /\ (r = chain[i] \/ r.subject = chain[i].issuer)

\* The connection a channel makes to the server's port.
HandshakeOK(ch) ==
    IF ch.kind = "insecure"
    THEN port = "insecure"
    ELSE /\ port = "secure"
         /\ Verify(ch.root_certificates, server_credentials.certificate_chain)
         /\ (server_credentials.require_client_auth => ch.certificate_chain # <<>>)

Requested(c) == pc[c] = "awaiting" /\ rpc[c].status = "requested"

\* The server handles the call: server.py 11-14, Adder.Add.
Add(c) ==
    /\ listener = "adder"
    /\ server_pc = "serving"
    /\ Requested(c)
    /\ HandshakeOK(channel[c])
    /\ LET s == AdderAdd(operands[c][1], operands[c][2]) IN
        /\ server_out' = Append(server_out, Line(operands[c][1], operands[c][2], s))
        /\ rpc' = [rpc EXCEPT ![c] = [status |-> "reply", sum |-> s]]
    /\ UNCHANGED <<fs, listener, opened, pc, args, channel, operands, attempts,
                   out, error>>
    /\ UNCHANGED server_vars

\* The TLS handshake (or the plaintext/TLS mismatch) fails.
HandshakeFailure(c) ==
    /\ listener = "adder"
    /\ server_pc = "serving"
    /\ Requested(c)
    /\ ~HandshakeOK(channel[c])
    /\ rpc' = [rpc EXCEPT ![c] = [status |-> "handshake", sum |-> 0]]
    /\ UNCHANGED <<fs, listener, server_out, opened, pc, args, channel, operands,
                   attempts, out, error>>
    /\ UNCHANGED server_vars

\* Nothing listens at server_address.
ConnectionRefused(c) ==
    /\ listener = "adder"
    /\ server_pc # "serving"
    /\ Requested(c)
    /\ rpc' = [rpc EXCEPT ![c] = [status |-> "refused", sum |-> 0]]
    /\ UNCHANGED <<fs, listener, server_out, opened, pc, args, channel, operands,
                   attempts, out, error>>
    /\ UNCHANGED server_vars

\* Another implementation of the service answers: any sum.
ForeignSums(a, b) == {a + b, a + b + 1}

ForeignAdd(c) ==
    /\ listener = "other"
    /\ Requested(c)
    /\ IF channel[c].kind = "insecure"
       THEN \E s \in ForeignSums(operands[c][1], operands[c][2]) :
                rpc' = [rpc EXCEPT ![c] = [status |-> "reply", sum |-> s]]
       ELSE rpc' = [rpc EXCEPT ![c] = [status |-> "handshake", sum |-> 0]]
    /\ UNCHANGED <<fs, listener, server_out, opened, pc, args, channel, operands,
                   attempts, out, error>>
    /\ UNCHANGED server_vars

\* ------------------------------------------------------- client, resumed

\* A client without the assertion.
ReplyAcceptedAlways(sum, a, b) == TRUE

\* client.py 43: the assertion on the reply.
ReplyAccepted(sum, a, b) == sum = a + b

\* The AioRpcError raised for a failed call, with its details.
RpcError(status) ==
    IF status = "refused" THEN "AioRpcError: connection refused"
    ELSE "AioRpcError: handshake failed"

RpcErrors == {RpcError(st) : st \in {"refused", "handshake"}}

\* A client that sends the request once more after a transport error.
OnRpcErrorRetry(c) ==
    IF attempts[c] < 2
    THEN /\ rpc' = [rpc EXCEPT ![c] = [status |-> "requested", sum |-> 0]]
         /\ attempts' = [attempts EXCEPT ![c] = @ + 1]
         /\ UNCHANGED <<pc, args, channel, operands, out, error>>
    ELSE /\ Exited(c, "crashed", RpcError(rpc[c].status))
         /\ UNCHANGED <<args, attempts, out>>

\* client.py 42: stub.Add raises AioRpcError, which nothing catches.
OnRpcError(c) ==
    /\ Exited(c, "crashed", RpcError(rpc[c].status))
    /\ UNCHANGED <<args, attempts, out>>

\* client.py 42-45 up to the second suspend point (await channel.close()).
ClientResume(c) ==
    /\ pc[c] = "awaiting"
    /\ rpc[c].status \notin {"-", "requested"}
    /\ IF rpc[c].status # "reply"
       THEN OnRpcError(c)
       ELSE IF ReplyAccepted(rpc[c].sum, operands[c][1], operands[c][2])
       THEN /\ out' = [out EXCEPT ![c] =
                        Append(@, Line(operands[c][1], operands[c][2], rpc[c].sum))]
            /\ pc' = [pc EXCEPT ![c] = "closing"]
            /\ UNCHANGED <<args, channel, operands, rpc, attempts, error>>
       ELSE /\ Exited(c, "crashed", "AssertionError")
            /\ UNCHANGED <<args, attempts, out>>
    /\ UNCHANGED <<fs, listener, server_out, opened>>
    /\ UNCHANGED server_vars

\* A long-lived client: after closing the channel it starts over.
ClientCloseLoop(c) ==
    /\ pc[c] = "closing"
    /\ attempts[c] < 2
    /\ pc' = [pc EXCEPT ![c] = "init"]
    /\ UNCHANGED <<args, channel, operands, rpc, error, attempts, out>>
    /\ UNCHANGED <<fs, listener, server_out, opened>>
    /\ UNCHANGED server_vars

\* client.py 45: channel.close() returns, main returns, the process exits.
ClientClose(c) ==
    /\ pc[c] = "closing"
    /\ Exited(c, "done", "-")
    /\ UNCHANGED <<args, attempts, out>>
    /\ UNCHANGED <<fs, listener, server_out, opened>>
    /\ UNCHANGED server_vars

\* ------------------------------------------------------------------ spec
Next ==
    \/ ServerMain
    \/ \E c \in Clients : ClientMain(c)
    \/ \E c \in Clients : Add(c)
    \/ \E c \in Clients : HandshakeFailure(c)
    \/ \E c \in Clients : ConnectionRefused(c)
    \/ \E c \in Clients : ForeignAdd(c)
    \/ \E c \in Clients : ClientResume(c)
    \/ \E c \in Clients : ClientClose(c)

Spec == Init /\ [][Next]_vars

\* The runs in a complete working directory, where every client gets as far
\* as sending its request.
CompleteScenarios == {sc \in Scenarios : sc.fs = PKI("root")}

\* asyncio resumes a coroutine whose awaited call has completed.
FairSpec ==
    /\ InitIn(CompleteScenarios)
    /\ [][Next]_vars
    /\ \A c \in Clients : WF_vars(ClientResume(c)) /\ WF_vars(ClientClose(c))

\* ---------------------------------------------------------------- claims

\* The operand range the specification states.
SpecRange == 1..10000

Terminal(c) == pc[c] \in {"done", "crashed"}

\* A process that has exited stays exited.
StaysExited == \A c \in Clients : Terminal(c) => pc'[c] = pc[c]

Replied(c) == pc[c] = "awaiting" /\ rpc[c].status = "reply"

\* C1: for operands a, b in [1, 10000] the reply of the server's Add handler
\* carries sum = a + b, and so does the line the server prints, whatever was
\* handled before.
C1_AddReturnsSum ==
    /\ \A c \in Clients :
          (/\ listener = "adder"
           /\ Replied(c)
           /\ operands[c][1] \in SpecRange
           /\ operands[c][2] \in SpecRange)
          => rpc[c].sum = operands[c][1] + operands[c][2]
    /\ \A i \in 1..Len(server_out) :
          (server_out[i].a \in SpecRange /\ server_out[i].b \in SpecRange)
          => server_out[i].sum = server_out[i].a + server_out[i].b

\* C1 witness: a reply for in-range operands, after an earlier request was handled.
C1_Witness ==
    \E c \in Clients :
        /\ listener = "adder"
        /\ Replied(c)
        /\ operands[c][1] \in SpecRange
        /\ operands[c][2] \in SpecRange
        /\ Len(server_out) = 2
        /\ server_out[2] = Line(operands[c][1], operands[c][2], rpc[c].sum)

\* C2: both operands of the request lie in [1, 10000] in every client state.
C2_OperandsInRange ==
    \A c \in Clients :
        pc[c] \in {"awaiting", "closing"} =>
            (operands[c][1] \in SpecRange /\ operands[c][2] \in SpecRange)

\* C3: a client process sends at most one request, never a second one after a
\* reply or an error, and once the reply with the correct sum has arrived it
\* prints the result, closes the channel and terminates for good.
C3_OneRoundTrip ==
    /\ [](\A c \in Clients : attempts[c] <= 1 /\ Len(out[c]) <= 1)
    /\ [][\A c \in Clients : attempts'[c] # attempts[c] => pc[c] = "init"]_vars
    /\ [][StaysExited]_vars
    /\ \A c \in Clients :
          (Replied(c) /\ rpc[c].sum = operands[c][1] + operands[c][2])
          ~> (pc[c] = "done" /\ attempts[c] = 1 /\ Len(out[c]) = 1)

\* C3 witness: a client that made its round trip and terminated.
C3_Witness ==
    \E c \in Clients : pc[c] = "done" /\ attempts[c] = 1 /\ Len(out[c]) = 1

\* C4: against a server started for mutual authentication, a client with
\* server-only credentials (no client key/certificate) never gets a reply.
C4_MutualRejectsServerOnly ==
    \A c \in Clients :
        (/\ listener = "adder"
         /\ server_args.authentication = "mutual"
         /\ args[c].authentication = "server")
        => (rpc[c].status # "reply" /\ out[c] = <<>>)

\* The trust anchor the specification names for each signer.
TrustAnchor(signer) ==
    CASE signer = "self" -> "server.crt"
      [] signer = "root" -> "root.crt"
      [] OTHER -> "intermediate.crt"

AnchorMatches(c) ==
    /\ TrustAnchor(args[c].signer) \in DOMAIN fs
    /\ Verify(fs[TrustAnchor(args[c].signer)], server_credentials.certificate_chain)

ServerAuthenticated(c) ==
    /\ listener = "adder"
    /\ port = "secure"
    /\ args[c].authentication = "server"

\* C5: in server-authenticated mode the call is answered, and answered
\* correctly, when the trust anchor for the client's signer setting matches
\* the server's certificate chain; when it does not match, the handshake
\* fails and no reply is delivered.
C5_TrustAnchorDecides ==
    \A c \in Clients :
        ServerAuthenticated(c) =>
            /\ rpc[c].status = "reply" => AnchorMatches(c)
            /\ rpc[c].status = "handshake" => ~AnchorMatches(c)
            /\ out[c] # <<>> => AnchorMatches(c)
            /\ (AnchorMatches(c) /\ Terminal(c)) =>
                    \/ pc[c] = "done" /\ Len(out[c]) = 1
                    \/ pc[c] = "crashed" /\ error[c] = RpcError("refused")
            /\ (~AnchorMatches(c) /\ Terminal(c)) =>
                    pc[c] = "crashed" /\ error[c] # "AssertionError"

\* C5 witness: one client answered with a matching anchor while another, with
\* a mismatched anchor, failed the handshake.
C5_Witness ==
    \E c, d \in Clients :
        /\ ServerAuthenticated(c) /\ ServerAuthenticated(d)
        /\ rpc[c].status = "reply" /\ AnchorMatches(c)
        /\ rpc[d].status = "handshake" /\ ~AnchorMatches(d)

Insecure(c) ==
    /\ listener = "adder"
    /\ ~server_args.server_authenticated
    /\ args[c].authentication = "none"

\* C6: in insecure mode neither process opens a certificate or key file, the
\* client never fails on a missing file or a handshake, and the line it prints
\* repeats a line the server has already printed, with s = a + b.
C6_InsecureNeedsNoFiles ==
    \A c \in Clients :
        Insecure(c) =>
            /\ \A f \in Files : <<c, f>> \notin opened /\ <<"server", f>> \notin opened
            /\ error[c] # "FileNotFoundError"
            /\ rpc[c].status # "handshake"
            /\ Terminal(c) =>
                    \/ pc[c] = "done" /\ Len(out[c]) = 1
                    \/ pc[c] = "crashed" /\ error[c] = RpcError("refused")
            /\ \A i \in 1..Len(out[c]) :
                  /\ out[c][i].sum = out[c][i].a + out[c][i].b
                  /\ out[c][i] \in Range(server_out)

\* C6 witness: with no file at all, a client has completed its round trip.
C6_Witness ==
    \E c \in Clients :
        /\ Insecure(c)
        /\ DOMAIN fs = {}
        /\ pc[c] = "done"
        /\ Len(out[c]) = 1

Mismatched(c) ==
    /\ Replied(c)
    /\ rpc[c].sum # operands[c][1] + operands[c][2]

\* C7: a reply whose sum differs from a + b makes the client abort with an
\* assertion failure, printing nothing and never terminating normally; a line
\* is printed only for a reply whose sum equals a + b.
C7_AssertionGuardsPrint ==
    /\ [][\A c \in Clients :
            Mismatched(c) =>
                \/ pc'[c] = pc[c] /\ rpc'[c] = rpc[c] /\ out'[c] = out[c]
                \/ pc'[c] = "crashed" /\ error'[c] = "AssertionError"
                      /\ out'[c] = out[c]]_vars
    /\ [][\A c \in Clients :
            out'[c] # out[c] =>
                /\ Replied(c)
                /\ rpc[c].sum = operands[c][1] + operands[c][2]
                /\ out'[c] = Append(out[c],
                                Line(operands[c][1], operands[c][2], rpc[c].sum))]_vars
    /\ [][StaysExited]_vars

\* C7 witness: a client aborted by the assertion, having printed nothing.
C7_Witness ==
    \E c \in Clients :
        pc[c] = "crashed" /\ error[c] = "AssertionError" /\ out[c] = <<>>

ServerFileMissing ==
    /\ server_args.server_authenticated
    /\ ~(ServerFiles \subseteq DOMAIN fs)

\* C8: with server authentication enabled and server.key or server.crt
\* missing, the server binds no port, never serves and handles no request.
C8_MissingServerFileIsFatal ==
    ServerFileMissing =>
        /\ port = "none"
        /\ server_pc \in {"init", "crashed"}
        /\ server_out = <<>>
        /\ \A c \in Clients : listener = "adder" => rpc[c].status # "reply"

\* C8 witness: the server has failed on a missing file and a client found
\* nothing listening.
C8_Witness ==
    /\ ServerFileMissing
    /\ server_pc = "crashed"
    /\ \E c \in Clients : listener = "adder" /\ rpc[c].status = "refused"

\* C9: handling an Add request leaves the server's state as it was, and the
\* sum of each reply is that request's own a + b, whatever the server has
\* handled before or is handling for other clients.
C9_AddIsStateless ==
    /\ [][server_out' # server_out =>
            /\ UNCHANGED server_vars
            /\ \E c \in Clients :
                  /\ Requested(c)
                  /\ rpc'[c] = [status |-> "reply",
                                sum |-> operands[c][1] + operands[c][2]]
                  /\ server_out' = Append(server_out,
                        Line(operands[c][1], operands[c][2],
                             operands[c][1] + operands[c][2]))
                  /\ \A d \in Clients \ {c} : rpc'[d] = rpc[d]]_vars
    /\ [](\A c \in Clients :
            (listener = "adder" /\ Replied(c))
            => rpc[c].sum = operands[c][1] + operands[c][2])

\* C9 witness: two calls answered by the same server, both replies pending.
C9_Witness ==
    /\ listener = "adder"
    /\ Len(server_out) = 2
    /\ \A c \in Clients : Replied(c)

TransportError(c) ==
    /\ pc[c] = "awaiting"
    /\ rpc[c].status \in {"refused", "handshake"}

\* C10: a transport error ends the client with the unhandled error: no second
\* request, no result line, no normal termination; a plaintext client on a
\* secure port and a TLS client on an insecure port never get a reply.
C10_TransportErrorIsFatal ==
    /\ [][\A c \in Clients :
            TransportError(c) =>
                \/ pc'[c] = pc[c] /\ rpc'[c] = rpc[c]
                      /\ attempts'[c] = attempts[c] /\ out'[c] = out[c]
                \/ pc'[c] = "crashed" /\ error'[c] = RpcError(rpc[c].status)
                      /\ attempts'[c] = attempts[c] /\ out'[c] = <<>>]_vars
    /\ [][StaysExited]_vars
    /\ [](\A c \in Clients :
            (/\ listener = "adder"
             /\ \/ args[c].authentication = "none" /\ port = "secure"
                \/ args[c].authentication \in {"server", "mutual"} /\ port = "insecure")
            => (rpc[c].status # "reply" /\ out[c] = <<>>))
    /\ [](\A c \in Clients :
            error[c] \in RpcErrors =>
                pc[c] = "crashed" /\ attempts[c] = 1 /\ out[c] = <<>>)

\* C10 witness: a plaintext client ended by the failed handshake with a
\* secure port.
C10_Witness ==
    \E c \in Clients :
        /\ listener = "adder"
        /\ args[c].authentication = "none"
        /\ port = "secure"
        /\ pc[c] = "crashed"
        /\ error[c] = RpcError("handshake")
        /\ attempts[c] = 1

====
